---- MODULE Spec2Model ----
(***************************************************************************)
(* The Spotify-to-MP3 converter: the Resolver (find_url), the Resolution   *)
(* Coordinator (search_youtube in main.py, run_search_thread in gui.py)    *)
(* and the thread pool they run on; the Acquirer (download_track) and the  *)
(* Acquisition Coordinator (download_songs, run_download_thread); the      *)
(* command-line driver (main) with the second main() at the end of         *)
(* main.py; the threads and buttons of the GUI's search and download tabs  *)
(* and the timer callbacks of its record tab.                              *)
(***************************************************************************)
EXTENDS Bags, FiniteSets, Integers, Sequences, TLC

VARIABLES frontend, max_workers, songs, pcMain, fut, work_queue, num_threads,
          found_list, not_found_list, processed, found_file, notfound_file,
          dl_lines, dl_dir0, dl_dir, dl_pc, dl_i, success_count, in_flight,
          requests, progress, outcomes, dl_run, prev_outcomes,
          san_name, san_once, san_twice, san_other, san_pc,
          drv_cmd, drv_pc, playlist_exists, dl_path, default_args, m2_pc, m2_i,
          rt_name, rt_url, rt_line, rt_parsed, rt_pc,
          btn_search, btn_download, s_pc, after_search, after_download,
          gfound, d_pc, d_read, d_overlap,
          is_recording, rec_pending, recorded_songs

\* the resolution stage
resVars == <<frontend, max_workers, songs, pcMain, fut, work_queue, num_threads,
             found_list, not_found_list, processed, found_file, notfound_file>>

\* the acquisition stage: manifest lines read, destination directory before
\* the first run and now, position
\* of download_songs / run_download_thread, loop index, success counter, the
\* download in progress; and its observations: URLs requested, progress
\* indices shown, outcome per line, run number, outcomes of the run before
acqVars == <<dl_lines, dl_dir0, dl_dir, dl_pc, dl_i, success_count, in_flight,
             requests, progress, outcomes, dl_run, prev_outcomes>>

\* one track name put through the file-name sanitization, once and again,
\* and through the sanitization of the second download_track
sanVars == <<san_name, san_once, san_twice, san_other, san_pc>>

\* the command-line driver: the command, the position of main(), whether the
\* playlist file exists, what is at the output folder's path, whether the
\* default file names are in use, and the position and call count of the
\* second main() at the end of main.py
drvVars == <<drv_cmd, drv_pc, playlist_exists, dl_path, default_args, m2_pc, m2_i>>

\* one resolver result written as a manifest line and parsed again
rtVars == <<rt_name, rt_url, rt_line, rt_parsed, rt_pc>>

\* the search and download tabs of the GUI: both buttons, the position of
\* every search thread, the callbacks queued with root.after, the found
\* manifest, the download thread and what it read
guiVars == <<btn_search, btn_download, s_pc, after_search, after_download,
             gfound, d_pc, d_read, d_overlap>>

\* the record tab of the GUI
recVars == <<is_recording, rec_pending, recorded_songs>>

extVars == <<drvVars, rtVars, guiVars, recVars>>

vars == <<resVars, acqVars, sanVars, extVars>>

\* no acquisition has been started
AcquireIdle ==
    /\ dl_lines = <<>>
    /\ dl_dir0 = {}
    /\ dl_dir = {}
    /\ dl_pc = "idle"
    /\ dl_i = 0
    /\ success_count = 0
    /\ in_flight = <<>>
    /\ requests = <<>>
    /\ progress = <<>>
    /\ outcomes = <<>>
    /\ dl_run = 1
    /\ prev_outcomes = <<>>

SanitizeIdle ==
    /\ san_name = <<>>
    /\ san_once = <<>>
    /\ san_twice = <<>>
    /\ san_other = <<>>
    /\ san_pc = "idle"

\* no command is running; the output folder exists
DriverIdle ==
    /\ drv_cmd = "none"
    /\ drv_pc = "idle"
    /\ playlist_exists = TRUE
    /\ dl_path = "dir"
    /\ default_args = TRUE
    /\ m2_pc = "idle"
    /\ m2_i = 0

RoundTripIdle ==
    /\ rt_name = <<>>
    /\ rt_url = <<>>
    /\ rt_line = <<>>
    /\ rt_parsed = [name |-> <<>>, url |-> <<>>]
    /\ rt_pc = "idle"

\* the window is not open
GuiIdle ==
    /\ btn_search = "disabled"
    /\ btn_download = "disabled"
    /\ s_pc = <<>>
    /\ after_search = 0
    /\ after_download = 0
    /\ gfound = [kind |-> "stale", run |-> 0]
    /\ d_pc = "idle"
    /\ d_read = [kind |-> "None", run |-> 0]
    /\ d_overlap = FALSE

RecorderIdle ==
    /\ is_recording = FALSE
    /\ rec_pending = 0
    /\ recorded_songs = <<>>

ExtIdle == DriverIdle /\ RoundTripIdle /\ GuiIdle /\ RecorderIdle

(* ------------------------------ bounds --------------------------------- *)

\* longest playlist of the coordinator specification
MaxSongs == 3

\* largest --workers value of the CLI that is explored
MaxWorkers == 2

\* track names of the playlist; two names make duplicate lines possible
Names == {"a", "b"}

\* URLs the provider can answer with
Urls == {"u1", "u2"}

(* ------------------------- program constants --------------------------- *)

\* run_search_thread: ThreadPoolExecutor(max_workers=3)
GuiWorkers == 3

\* find_url: for attempt in range(3)
RangeStop == 3

\* find_url: if attempt == 2
LastAttempt == 2

\* video.get('webpage_url') or video.get('url') evaluating to a falsy value
None == "None"

\* the result has no 'error' / no 'url' key
NoError == <<>>

(* ------------------------- provider responses -------------------------- *)

\* Error texts are sequences of fragments, so that `"429" in error_msg` is a
\* search through the text and not a tag.
Contains(msg, marker) == \E k \in 1..Len(msg) : msg[k] = marker

\* str(IndexError) of info['entries'][0] on an empty result list
IndexErrorMsg == <<"list index out of range">>

GenericMsgs == { <<"timed out">>, <<"connection reset">> }

RateLimitMsg == <<"HTTP Error", "429">>

SignInMsg == <<"Sign in", "to confirm your age">>

\* an access-restriction text that also carries the digits 429 (video ids and
\* URLs are part of yt-dlp's error texts)
SignIn429Msg == <<"[youtube] x", "429", "y:", "Sign in">>

ErrorMsgs == GenericMsgs \cup {RateLimitMsg, SignInMsg, SignIn429Msg}

\* what one ydl.extract_info(song_name, download=False) call can do:
\* return a video (bare or as entries[0]) with or without a URL, return an
\* empty entries list, or raise an exception with a text
Responses ==
    [kind : {"video"}, url : Urls \cup {None}, msg : {NoError}]
      \cup [kind : {"empty"}, url : {None}, msg : {NoError}]
      \cup [kind : {"error"}, url : {None}, msg : ErrorMsgs]

\* the responses explored when several resolutions run concurrently
CoarseResponses ==
    { r \in Responses :
        \/ r.kind = "video" /\ r.url = "u1"
        \/ r.kind = "error" /\ r.msg = RateLimitMsg }

(* ------------------------------ find_url ------------------------------- *)

\* is yt_dlp importable inside find_url: search_youtube exits before the pool
\* is built otherwise, and gui.py cannot import main without it
yt_dlp_installed == TRUE

\* mutation: the result is built without the URL that was found
FoundResult_NoUrl(song, url) ==
    [song |-> song, found |-> TRUE, url |-> None, error |-> NoError]

FoundResult(song, url) ==
    [song |-> song, found |-> TRUE, url |-> url, error |-> NoError]

FailedResult(song, error) ==
    [song |-> song, found |-> FALSE, url |-> None, error |-> error]

\* a return statement of find_url: the future gets its result
Return(t, result) ==
    [t EXCEPT !.state = "finished", !.pc = "returned", !.result = result]

\* a future before its work item runs
NewFuture(song) ==
    [song |-> song, state |-> "unsubmitted", pc |-> "entry", attempt |-> 0,
     error_msg |-> NoError, cooldowns |-> 0, log |-> <<>>,
     result |-> FailedResult(song, NoError)]

\* the work item starts to run find_url(song)
Enter(t) ==
    IF yt_dlp_installed
    THEN [t EXCEPT !.state = "running", !.pc = "attempt"]
    ELSE Return(t, FailedResult(t.song, <<"yt-dlp not installed">>))

\* mutation: the budget check reads 'if attempt == 1'
AfterHandler_ReturnEarly(t) ==
    IF t.attempt = LastAttempt - 1
    THEN Return(t, FailedResult(t.song, t.error_msg))
    ELSE IF t.attempt + 1 < RangeStop
         THEN [t EXCEPT !.attempt = @ + 1, !.pc = "attempt"]
         ELSE Return(t, FailedResult(t.song, <<"Max retries exceeded">>))

\* the end of one pass through the except block: 'if attempt == 2: return',
\* else the next iteration of range(3), else the return after the loop
AfterHandler(t) ==
    IF t.attempt = LastAttempt
    THEN Return(t, FailedResult(t.song, t.error_msg))
    ELSE IF t.attempt + 1 < RangeStop
         THEN [t EXCEPT !.attempt = @ + 1, !.pc = "attempt"]
         ELSE Return(t, FailedResult(t.song, <<"Max retries exceeded">>))

\* mutation: the 429 branch only prints and does not sleep
Handler_NoCooldown(t, msg) ==
    LET caught == [t EXCEPT !.error_msg = msg] IN
    IF Contains(msg, "429")
    THEN AfterHandler(caught)
    ELSE IF Contains(msg, "Sign in")
         THEN Return(caught,
                     FailedResult(t.song, <<"Age restricted/Login required">>))
         ELSE AfterHandler(caught)

\* mutation: error_msg keeps the text of the first exception of the call
Handler_KeepFirstError(t, msg) ==
    LET caught == IF t.error_msg = NoError THEN [t EXCEPT !.error_msg = msg] ELSE t IN
    IF Contains(msg, "429")
    THEN [caught EXCEPT !.pc = "cooldown"]
    ELSE IF Contains(msg, "Sign in")
         THEN Return(caught,
                     FailedResult(t.song, <<"Age restricted/Login required">>))
         ELSE AfterHandler(caught)

\* except Exception as e: error_msg = str(e); the 429 branch sleeps (pc
\* "cooldown"), the Sign in branch returns, anything else falls through
Handler(t, msg) ==
    LET caught == [t EXCEPT !.error_msg = msg] IN
    IF Contains(msg, "429")
    THEN [caught EXCEPT !.pc = "cooldown"]
    ELSE IF Contains(msg, "Sign in")
         THEN Return(caught,
                     FailedResult(t.song, <<"Age restricted/Login required">>))
         ELSE AfterHandler(caught)

\* one pass through the try block with the provider answering r
TryBody(t, r) ==
    IF r.kind = "video"
    THEN IF r.url # None
         THEN Return(t, FoundResult(t.song, r.url))
         ELSE Return(t, FailedResult(t.song, <<"No results found">>))
    ELSE IF r.kind = "empty"
         THEN Handler(t, IndexErrorMsg)
         ELSE Handler(t, r.msg)

\* time.sleep(20) in the 429 branch
CooldownSleep(t) == [t EXCEPT !.cooldowns = @ + 1]

\* one search query of find_url for future i (jitter sleep, extract_info,
\* result extraction or exception handling up to the cooldown sleep)
Attempt(i, R) ==
    /\ i \in DOMAIN fut
    /\ fut[i].state = "running"
    /\ fut[i].pc = "attempt"
    /\ \E r \in R :
         fut' = [fut EXCEPT ![i] = TryBody([fut[i] EXCEPT !.log = Append(@, r)], r)]
    /\ UNCHANGED <<acqVars, sanVars, extVars>>
    /\ UNCHANGED <<frontend, max_workers, songs, pcMain, work_queue, num_threads,
                   found_list, not_found_list, processed, found_file,
                   notfound_file>>

\* mutation: find_url itself records a failure in the shared not-found list
Cooldown_WritesShared(i) ==
    /\ i \in DOMAIN fut
    /\ fut[i].state = "running"
    /\ fut[i].pc = "cooldown"
    /\ fut' = [fut EXCEPT ![i] = AfterHandler(CooldownSleep(fut[i]))]
    /\ not_found_list' = IF fut'[i].state = "finished"
                         THEN Append(not_found_list, fut[i].song)
                         ELSE not_found_list
    /\ UNCHANGED <<acqVars, sanVars, extVars>>
    /\ UNCHANGED <<frontend, max_workers, songs, pcMain, work_queue, num_threads,
                   found_list, processed, found_file, notfound_file>>

\* the cooldown sleep and the rest of the except block
Cooldown(i) ==
    /\ i \in DOMAIN fut
    /\ fut[i].state = "running"
    /\ fut[i].pc = "cooldown"
    /\ fut' = [fut EXCEPT ![i] = AfterHandler(CooldownSleep(fut[i]))]
    /\ UNCHANGED <<acqVars, sanVars, extVars>>
    /\ UNCHANGED <<frontend, max_workers, songs, pcMain, work_queue, num_threads,
                   found_list, not_found_list, processed, found_file,
                   notfound_file>>

(* ------------------------ thread pool executor ------------------------- *)

Futures == DOMAIN fut

Running == { i \in Futures : fut[i].state = "running" }

Unsubmitted == { i \in Futures : fut[i].state = "unsubmitted" }

\* mutation: every submit starts a new worker thread
AdjustThreadCount_Unbounded(n) == n + 1

\* ThreadPoolExecutor.submit starts a worker thread only while fewer than
\* max_workers exist
AdjustThreadCount(n) == IF n < max_workers THEN n + 1 ELSE n

\* the f-string f"{result['song']} | {result['url']}"
FoundLine(result) == <<result.song, " | ", result.url>>

\* manifests left by an earlier run
StaleFound == << <<"old", " | ", "old">> >>

StaleNotFound == <<"old">>

(* ----------------------- resolution coordinator ------------------------ *)

\* open(input_file) and the list comprehension over its non-blank lines; the
\* GUI returns on an empty list before it builds the pool
ReadPlaylist ==
    /\ pcMain = "start"
    /\ pcMain' = IF Len(songs) = 0
                 THEN (IF frontend = "gui" THEN "done" ELSE "collect")
                 ELSE "submit"
    /\ UNCHANGED <<acqVars, sanVars, extVars>>
    /\ UNCHANGED <<frontend, max_workers, songs, fut, work_queue, num_threads,
                   found_list, not_found_list, processed, found_file,
                   notfound_file>>

\* mutation: a name that was submitted before is not submitted again
Submit_ByName ==
    /\ pcMain = "submit"
    /\ Unsubmitted # {}
    /\ LET i == CHOOSE k \in Unsubmitted : \A j \in Unsubmitted : k <= j IN
         /\ IF \E j \in 1..(i - 1) : songs[j] = songs[i]
            THEN /\ fut' = [fut EXCEPT ![i].state = "yielded"]
                 /\ UNCHANGED <<work_queue, num_threads>>
            ELSE /\ fut' = [fut EXCEPT ![i].state = "pending"]
                 /\ work_queue' = Append(work_queue, i)
                 /\ num_threads' = AdjustThreadCount(num_threads)
         /\ pcMain' = IF Unsubmitted = {i} THEN "collect" ELSE "submit"
    /\ UNCHANGED <<acqVars, sanVars, extVars>>
    /\ UNCHANGED <<frontend, max_workers, songs, found_list, not_found_list,
                   processed, found_file, notfound_file>>

\* one executor.submit(find_url, song) of the dict comprehension, in playlist
\* order; as_completed is entered after the last one
Submit ==
    /\ pcMain = "submit"
    /\ Unsubmitted # {}
    /\ LET i == CHOOSE k \in Unsubmitted : \A j \in Unsubmitted : k <= j IN
         /\ fut' = [fut EXCEPT ![i].state = "pending"]
         /\ work_queue' = Append(work_queue, i)
         /\ num_threads' = AdjustThreadCount(num_threads)
         /\ pcMain' = IF Unsubmitted = {i} THEN "collect" ELSE "submit"
    /\ UNCHANGED <<acqVars, sanVars, extVars>>
    /\ UNCHANGED <<frontend, max_workers, songs, found_list, not_found_list,
                   processed, found_file, notfound_file>>

\* a worker thread that is not running a work item takes the next one from
\* the queue and calls find_url
WorkerTake ==
    /\ work_queue # <<>>
    /\ Cardinality(Running) < num_threads
    /\ fut' = [fut EXCEPT ![Head(work_queue)] = Enter(@)]
    /\ work_queue' = Tail(work_queue)
    /\ UNCHANGED <<acqVars, sanVars, extVars>>
    /\ UNCHANGED <<frontend, max_workers, songs, pcMain, num_threads,
                   found_list, not_found_list, processed, found_file,
                   notfound_file>>

\* mutation: the not-found append is not in an else branch
Collect_Both(i) ==
    /\ pcMain = "collect"
    /\ i \in Futures
    /\ fut[i].state = "finished"
    /\ fut' = [fut EXCEPT ![i].state = "yielded"]
    /\ processed' = processed + 1
    /\ found_list' = IF fut[i].result.found
                     THEN Append(found_list, FoundLine(fut[i].result))
                     ELSE found_list
    /\ not_found_list' = Append(not_found_list, fut[i].result.song)
    /\ UNCHANGED <<acqVars, sanVars, extVars>>
    /\ UNCHANGED <<frontend, max_workers, songs, pcMain, work_queue,
                   num_threads, found_file, notfound_file>>

\* mutation: a failed name is appended only if it is not in the list yet
Collect_Dedup(i) ==
    /\ pcMain = "collect"
    /\ i \in Futures
    /\ fut[i].state = "finished"
    /\ fut' = [fut EXCEPT ![i].state = "yielded"]
    /\ processed' = processed + 1
    /\ IF fut[i].result.found
       THEN /\ found_list' = Append(found_list, FoundLine(fut[i].result))
            /\ UNCHANGED not_found_list
       ELSE /\ not_found_list' =
                 IF \E k \in 1..Len(not_found_list) : not_found_list[k] = fut[i].result.song
                 THEN not_found_list
                 ELSE Append(not_found_list, fut[i].result.song)
            /\ UNCHANGED found_list
    /\ UNCHANGED <<acqVars, sanVars, extVars>>
    /\ UNCHANGED <<frontend, max_workers, songs, pcMain, work_queue,
                   num_threads, found_file, notfound_file>>

\* one iteration of 'for future in as_completed(future_to_song)': any future
\* that has finished and was not yielded yet
Collect(i) ==
    /\ pcMain = "collect"
    /\ i \in Futures
    /\ fut[i].state = "finished"
    /\ fut' = [fut EXCEPT ![i].state = "yielded"]
    /\ processed' = processed + 1
    /\ IF fut[i].result.found
       THEN /\ found_list' = Append(found_list, FoundLine(fut[i].result))
            /\ UNCHANGED not_found_list
       ELSE /\ not_found_list' = Append(not_found_list, fut[i].result.song)
            /\ UNCHANGED found_list
    /\ UNCHANGED <<acqVars, sanVars, extVars>>
    /\ UNCHANGED <<frontend, max_workers, songs, pcMain, work_queue,
                   num_threads, found_file, notfound_file>>

\* mutation: the coordinator goes on to write without waiting for the pool
LeavePool_NoWait ==
    /\ pcMain = "collect"
    /\ pcMain' = "write_found"
    /\ UNCHANGED <<acqVars, sanVars, extVars>>
    /\ UNCHANGED <<frontend, max_workers, songs, fut, work_queue, num_threads,
                   found_list, not_found_list, processed, found_file,
                   notfound_file>>

\* as_completed is exhausted and the with block's shutdown(wait=True) returns
LeavePool ==
    /\ pcMain = "collect"
    /\ \A i \in Futures : fut[i].state = "yielded"
    /\ pcMain' = "write_found"
    /\ UNCHANGED <<acqVars, sanVars, extVars>>
    /\ UNCHANGED <<frontend, max_workers, songs, fut, work_queue, num_threads,
                   found_list, not_found_list, processed, found_file,
                   notfound_file>>

\* with open(output_found, "w"): f.write("\n".join(found_list))
WriteFound ==
    /\ pcMain = "write_found"
    /\ found_file' = found_list
    /\ pcMain' = "write_notfound"
    /\ UNCHANGED <<acqVars, sanVars, extVars>>
    /\ UNCHANGED <<frontend, max_workers, songs, fut, work_queue, num_threads,
                   found_list, not_found_list, processed, notfound_file>>

\* with open(output_notfound, "w"): f.write("\n".join(not_found_list))
WriteNotFound ==
    /\ pcMain = "write_notfound"
    /\ notfound_file' = not_found_list
    /\ pcMain' = "done"
    /\ UNCHANGED <<acqVars, sanVars, extVars>>
    /\ UNCHANGED <<frontend, max_workers, songs, fut, work_queue, num_threads,
                   found_list, not_found_list, processed, found_file>>

(* --------------------------- specifications ---------------------------- *)

Playlists == UNION { [1..n -> Names] : n \in 0..MaxSongs }

\* a resolution run about to read its playlist, from the CLI with --workers w
\* or from the GUI
Init ==
    /\ frontend \in {"cli", "gui"}
    /\ max_workers \in (IF frontend = "gui" THEN {GuiWorkers} ELSE 1..MaxWorkers)
    /\ songs \in Playlists
    /\ pcMain = "start"
    /\ fut = [i \in 1..Len(songs) |-> NewFuture(songs[i])]
    /\ work_queue = <<>>
    /\ num_threads = 0
    /\ found_list = <<>>
    /\ not_found_list = <<>>
    /\ processed = 0
    /\ found_file = StaleFound
    /\ notfound_file = StaleNotFound
    /\ AcquireIdle
    /\ SanitizeIdle
    /\ ExtIdle

Next ==
    \/ ReadPlaylist
    \/ Submit
    \/ WorkerTake
    \/ \E i \in Futures : Attempt(i, CoarseResponses)
    \/ \E i \in Futures : Cooldown(i)
    \/ \E i \in Futures : Collect(i)
    \/ LeavePool
    \/ WriteFound
    \/ WriteNotFound

Spec == Init /\ [][Next]_vars

\* the threads of the process are scheduled fairly and every provider call
\* returns
FairSpec == Spec /\ WF_vars(Next)

\* one call find_url(song) against every provider behaviour
InitResolver ==
    /\ frontend = "cli"
    /\ max_workers = 1
    /\ songs \in [1..1 -> Names]
    /\ pcMain = "collect"
    /\ fut = [i \in 1..1 |-> Enter([NewFuture(songs[i]) EXCEPT !.state = "pending"])]
    /\ work_queue = <<>>
    /\ num_threads = 1
    /\ found_list = <<>>
    /\ not_found_list = <<>>
    /\ processed = 0
    /\ found_file = StaleFound
    /\ notfound_file = StaleNotFound
    /\ AcquireIdle
    /\ SanitizeIdle
    /\ ExtIdle

NextResolver ==
    \/ \E i \in Futures : Attempt(i, Responses)
    \/ \E i \in Futures : Cooldown(i)

ResolverSpec == InitResolver /\ [][NextResolver]_vars

FairResolverSpec == ResolverSpec /\ WF_vars(NextResolver)

(* ------------------------- text as characters ------------------------- *)

\* Track names, manifest lines and file names are sequences of characters.

\* characters for which str.isalpha() holds
Letters == {"a", "b", "x"}

\* characters for which str.isdigit() holds
Digits == {"1"}

\* the tuple (' ', '-', '_', '.', '(', ')') of download_track
Whitelist == {" ", "-", "_", ".", "(", ")"}

\* characters str.strip() removes
Whitespace == {" "}

\* safe_name.strip()[:150]
NameLimit == 150

Min(a, b) == IF a <= b THEN a ELSE b

\* "|" in line
HasSeparator(line) == \E k \in 1..Len(line) : line[k] = "|"

FirstSeparator(line) ==
    CHOOSE k \in 1..Len(line) :
      line[k] = "|" /\ \A j \in 1..(k - 1) : line[j] # "|"

\* str.strip()
Strip(s) ==
    LET inner == { k \in 1..Len(s) : s[k] \notin Whitespace } IN
    IF inner = {}
    THEN <<>>
    ELSE SubSeq(s, CHOOSE k \in inner : \A j \in inner : k <= j,
                   CHOOSE k \in inner : \A j \in inner : j <= k)

\* parts = line.split("|", 1); parts[0].strip()
SongNameOf(line) == Strip(SubSeq(line, 1, FirstSeparator(line) - 1))

\* parts[1].strip()
UrlOf(line) == Strip(SubSeq(line, FirstSeparator(line) + 1, Len(line)))

\* c.isalpha() or c.isdigit() or c in (' ', '-', '_', '.', '(', ')')
Kept(c) == c \in Letters \/ c \in Digits \/ c \in Whitelist

\* "".join([c for c in song_name if ...])
Filter(s) == SelectSeq(s, Kept)

\* the [:150] slice
Truncate(s) == SubSeq(s, 1, Min(Len(s), NameLimit))

\* mutation: the slice is taken before strip()
SafeName_SliceFirst(song_name) == Strip(Truncate(Filter(song_name)))

\* the two sanitization statements of download_track(line, output_folder)
SafeName(song_name) == Truncate(Strip(Filter(song_name)))

\* the two sanitization statements of the second download_track(line): the
\* same filter, strip() and no slice
SafeName2(song_name) == Strip(Filter(song_name))

\* f"{output_path}.mp3" inside output_folder
Mp3File(safe_name) == safe_name \o <<".mp3">>

(* ----------------------------- acquisition ----------------------------- *)

\* longest found manifest of the acquisition specification
MaxLines == 3

\* lines a found manifest can hold: two tracks, a track whose name differs
\* from another only in a removed character, and a line without separator
ManifestLines ==
    { <<"a", " ", "|", " ", "u">>,
      <<"a", "/", " ", "|", " ", "v">>,
      <<"b", " ", "|", " ", "w">>,
      <<"a", "b">> }

Manifests == UNION { [1..n -> ManifestLines] : n \in 0..MaxLines }

\* parameters of the function bound to the name download_track when the
\* coordinator calls it: main.py run as a script calls main() at line 406,
\* before the second definition at line 416 is executed; 'import main' in
\* gui.py executes the whole file, which leaves the second definition bound
DownloadTrackParams == IF frontend = "gui" THEN 1 ELSE 2

\* both coordinators call download_track(line, output_folder)
CallArguments == 2

\* open(input_file) and the list comprehension over its non-blank lines
DlStart ==
    /\ dl_pc = "start"
    /\ dl_pc' = "loop"
    /\ UNCHANGED <<dl_lines, dl_dir0, dl_dir, dl_i, success_count, in_flight, requests,
                   progress, outcomes, dl_run, prev_outcomes>>
    /\ UNCHANGED <<resVars, sanVars, extVars>>

\* download_track returned result for the line at index dl_i
TrackReturned(result, outcome) ==
    /\ success_count' = IF result THEN success_count + 1 ELSE success_count
    /\ outcomes' = Append(outcomes, outcome)
    /\ dl_i' = dl_i + 1

\* mutation: the existence test leaves out the .mp3 extension
TrackBegin_NoExtension ==
    /\ dl_pc = "loop"
    /\ dl_i < Len(dl_lines)
    /\ progress' = Append(progress, dl_i + 1)
    /\ LET line == dl_lines[dl_i + 1] IN
         IF DownloadTrackParams # CallArguments
         THEN /\ dl_pc' = "error"
              /\ UNCHANGED <<dl_i, success_count, outcomes, in_flight, requests>>
         ELSE IF ~HasSeparator(line)
         THEN /\ TrackReturned(FALSE, "malformed")
              /\ UNCHANGED <<dl_pc, in_flight, requests>>
         ELSE IF SafeName(SongNameOf(line)) \in dl_dir
         THEN /\ TrackReturned(TRUE, "skipped")
              /\ UNCHANGED <<dl_pc, in_flight, requests>>
         ELSE /\ in_flight' = <<[name |-> SafeName(SongNameOf(line)),
                                 url |-> UrlOf(line)]>>
              /\ requests' = Append(requests, UrlOf(line))
              /\ dl_pc' = "downloading"
              /\ UNCHANGED <<dl_i, success_count, outcomes>>
    /\ UNCHANGED <<dl_lines, dl_dir0, dl_dir, dl_run, prev_outcomes>>
    /\ UNCHANGED <<resVars, sanVars, extVars>>

\* mutation: no separator test; parts[1] raises IndexError outside any try
TrackBegin_NoSeparatorTest ==
    /\ dl_pc = "loop"
    /\ dl_i < Len(dl_lines)
    /\ progress' = Append(progress, dl_i + 1)
    /\ LET line == dl_lines[dl_i + 1] IN
         IF DownloadTrackParams # CallArguments \/ ~HasSeparator(line)
         THEN /\ dl_pc' = "error"
              /\ UNCHANGED <<dl_i, success_count, outcomes, in_flight, requests>>
         ELSE IF Mp3File(SafeName(SongNameOf(line))) \in dl_dir
         THEN /\ TrackReturned(TRUE, "skipped")
              /\ UNCHANGED <<dl_pc, in_flight, requests>>
         ELSE /\ in_flight' = <<[name |-> SafeName(SongNameOf(line)),
                                 url |-> UrlOf(line)]>>
              /\ requests' = Append(requests, UrlOf(line))
              /\ dl_pc' = "downloading"
              /\ UNCHANGED <<dl_i, success_count, outcomes>>
    /\ UNCHANGED <<dl_lines, dl_dir0, dl_dir, dl_run, prev_outcomes>>
    /\ UNCHANGED <<resVars, sanVars, extVars>>

\* one loop iteration up to the return of download_track or up to its
\* ydl.download call: the progress print, the call, the separator test, the
\* file name, the existence test
TrackBegin ==
    /\ dl_pc = "loop"
    /\ dl_i < Len(dl_lines)
    /\ progress' = Append(progress, dl_i + 1)
    /\ LET line == dl_lines[dl_i + 1] IN
         IF DownloadTrackParams # CallArguments
         THEN \* TypeError, caught by 'except Exception' of run_download_thread
              /\ dl_pc' = "error"
              /\ UNCHANGED <<dl_i, success_count, outcomes, in_flight, requests>>
         ELSE IF ~HasSeparator(line)
         THEN /\ TrackReturned(FALSE, "malformed")
              /\ UNCHANGED <<dl_pc, in_flight, requests>>
         ELSE IF Mp3File(SafeName(SongNameOf(line))) \in dl_dir
         THEN /\ TrackReturned(TRUE, "skipped")
              /\ UNCHANGED <<dl_pc, in_flight, requests>>
         ELSE /\ in_flight' = <<[name |-> SafeName(SongNameOf(line)),
                                 url |-> UrlOf(line)]>>
              /\ requests' = Append(requests, UrlOf(line))
              /\ dl_pc' = "downloading"
              /\ UNCHANGED <<dl_i, success_count, outcomes>>
    /\ UNCHANGED <<dl_lines, dl_dir0, dl_dir, dl_run, prev_outcomes>>
    /\ UNCHANGED <<resVars, sanVars, extVars>>

\* what ydl.download can end with: no file can be written below a path
\* that is not a directory
DownloadResults == IF dl_path = "dir" THEN BOOLEAN ELSE {FALSE}

\* mutation: the except branch of download_track returns True as well
TrackEnd_AlwaysTrue ==
    /\ dl_pc = "downloading"
    /\ \E ok \in BOOLEAN :
         /\ dl_dir' = IF ok THEN dl_dir \cup {Mp3File(in_flight[1].name)} ELSE dl_dir
         /\ TrackReturned(TRUE, "downloaded")
    /\ in_flight' = <<>>
    /\ dl_pc' = "loop"
    /\ UNCHANGED <<dl_lines, dl_dir0, requests, progress, dl_run, prev_outcomes>>
    /\ UNCHANGED <<resVars, sanVars, extVars>>

\* ydl.download([url]) ends: the mp3 is in the folder, or an exception is
\* caught and download_track returns False
TrackEnd ==
    /\ dl_pc = "downloading"
    /\ \E ok \in DownloadResults :
         /\ dl_dir' = IF ok THEN dl_dir \cup {Mp3File(in_flight[1].name)} ELSE dl_dir
         /\ TrackReturned(ok, IF ok THEN "downloaded" ELSE "failed")
    /\ in_flight' = <<>>
    /\ dl_pc' = "loop"
    /\ UNCHANGED <<dl_lines, dl_dir0, requests, progress, dl_run, prev_outcomes>>
    /\ UNCHANGED <<resVars, sanVars, extVars>>

\* the loop is over: 'Completed! success_count/total'
DlFinish ==
    /\ dl_pc = "loop"
    /\ dl_i = Len(dl_lines)
    /\ dl_pc' = "done"
    /\ UNCHANGED <<dl_lines, dl_dir0, dl_dir, dl_i, success_count, in_flight, requests,
                   progress, outcomes, dl_run, prev_outcomes>>
    /\ UNCHANGED <<resVars, sanVars, extVars>>

\* the user starts the acquisition again on the same manifest and folder
Rerun ==
    /\ dl_pc = "done"
    /\ dl_run = 1
    /\ dl_run' = 2
    /\ prev_outcomes' = outcomes
    /\ dl_pc' = "start"
    /\ dl_i' = 0
    /\ success_count' = 0
    /\ requests' = <<>>
    /\ progress' = <<>>
    /\ outcomes' = <<>>
    /\ UNCHANGED <<dl_lines, dl_dir0, dl_dir, in_flight>>
    /\ UNCHANGED <<resVars, sanVars, extVars>>

\* the state no resolution run is in
ResolveIdle ==
    /\ max_workers = GuiWorkers
    /\ songs = <<>>
    /\ pcMain = "idle"
    /\ fut = <<>>
    /\ work_queue = <<>>
    /\ num_threads = 0
    /\ found_list = <<>>
    /\ not_found_list = <<>>
    /\ processed = 0
    /\ found_file = StaleFound
    /\ notfound_file = StaleNotFound

\* download_songs (CLI) or run_download_thread (GUI) about to read a found
\* manifest, with an empty folder or one that holds a.mp3 already
InitAcquire ==
    /\ frontend \in {"cli", "gui"}
    /\ ResolveIdle
    /\ SanitizeIdle
    /\ ExtIdle
    /\ dl_lines \in Manifests
    /\ dl_dir0 \in { {}, {Mp3File(<<"a">>)} }
    /\ dl_dir = dl_dir0
    /\ dl_pc = "start"
    /\ dl_i = 0
    /\ success_count = 0
    /\ in_flight = <<>>
    /\ requests = <<>>
    /\ progress = <<>>
    /\ outcomes = <<>>
    /\ dl_run = 1
    /\ prev_outcomes = <<>>

NextAcquire ==
    \/ DlStart
    \/ TrackBegin
    \/ TrackEnd
    \/ DlFinish
    \/ Rerun

AcquireSpec == InitAcquire /\ [][NextAcquire]_vars

(* ---------------------------- sanitization ----------------------------- *)

\* longest tail appended to a run of letters
MaxTail == 3

\* characters of the tails: a letter, a space, a removed character
TailChars == {"x", " ", "/"}

\* lengths of the run of letters before the tail; the last ones reach the
\* [:150] slice
HeadLengths == {0, NameLimit - 3, NameLimit - 2, NameLimit - 1, NameLimit}

\* track names: a run of letters followed by a short tail
TrackNames ==
    { [k \in 1..n |-> "a"] \o tail :
        n \in HeadLengths,
        tail \in UNION { [1..m -> TailChars] : m \in 0..MaxTail } }

\* the name goes through both definitions of download_track
SanitizeOnce ==
    /\ san_pc = "name"
    /\ san_once' = SafeName(san_name)
    /\ san_other' = SafeName2(san_name)
    /\ san_pc' = "once"
    /\ UNCHANGED <<san_name, san_twice>>
    /\ UNCHANGED <<resVars, acqVars, extVars>>

SanitizeAgain ==
    /\ san_pc = "once"
    /\ san_twice' = SafeName(san_once)
    /\ san_pc' = "twice"
    /\ UNCHANGED <<san_name, san_once, san_other>>
    /\ UNCHANGED <<resVars, acqVars, extVars>>

InitSanitize ==
    /\ frontend = "cli"
    /\ ResolveIdle
    /\ AcquireIdle
    /\ ExtIdle
    /\ san_name \in TrackNames
    /\ san_once = <<>>
    /\ san_twice = <<>>
    /\ san_other = <<>>
    /\ san_pc = "name"

NextSanitize ==
    \/ SanitizeOnce
    \/ SanitizeAgain

SanitizeSpec == InitSanitize /\ [][NextSanitize]_vars

(* --------------------------- manifest lines ---------------------------- *)

\* longest track name of the manifest-line specification
MaxNameLen == 3

\* characters of those names: a letter, the separator, a space
NameChars == {"a", "|", " "}

\* track names the Resolver is called with: the non-blank, stripped lines of
\* a playlist file
ResolverNames ==
    { s \in UNION { [1..n -> NameChars] : n \in 1..MaxNameLen } : Strip(s) = s }

\* URLs of a provider entry
ResolverUrls == { <<"u">>, <<"u", "1">>, <<"w">> }

\* f"{result['song']} | {result['url']}"
Serialise(song, url) == song \o <<" ", "|", " ">> \o url

\* the coordinator appends the line for a found result
RtSerialise ==
    /\ rt_pc = "result"
    /\ rt_line' = Serialise(rt_name, rt_url)
    /\ rt_pc' = "line"
    /\ UNCHANGED <<rt_name, rt_url, rt_parsed>>
    /\ UNCHANGED <<resVars, acqVars, sanVars, drvVars, guiVars, recVars>>

\* download_songs strips the line it read and download_track splits it
RtParse ==
    /\ rt_pc = "line"
    /\ HasSeparator(Strip(rt_line))
    /\ rt_parsed' = [name |-> SongNameOf(Strip(rt_line)),
                     url |-> UrlOf(Strip(rt_line))]
    /\ rt_pc' = "parsed"
    /\ UNCHANGED <<rt_name, rt_url, rt_line>>
    /\ UNCHANGED <<resVars, acqVars, sanVars, drvVars, guiVars, recVars>>

\* a found result of the Resolver for any name and URL
InitRoundTrip ==
    /\ frontend = "cli"
    /\ ResolveIdle
    /\ AcquireIdle
    /\ SanitizeIdle
    /\ DriverIdle
    /\ GuiIdle
    /\ RecorderIdle
    /\ rt_name \in ResolverNames
    /\ rt_url \in ResolverUrls
    /\ rt_line = <<>>
    /\ rt_parsed = [name |-> <<>>, url |-> <<>>]
    /\ rt_pc = "result"

NextRoundTrip ==
    \/ RtSerialise
    \/ RtParse

RoundTripSpec == InitRoundTrip /\ [][NextRoundTrip]_vars

(* -------------------- GUI: search and download tabs -------------------- *)

\* search threads started while the window is open
MaxThreads == 3

SearchThreads == 1..MaxThreads

\* threads that were started and have not run to their end
ActiveSearches == { t \in SearchThreads : s_pc[t] \notin {"unborn", "ended"} }

\* threads between the end of their pool and the end of their second write
Writers ==
    { t \in SearchThreads : s_pc[t] \in {"open_found", "write_found", "write_notfound"} }

\* content of the found manifest: absent, the lines of a run before the
\* window was opened, just truncated by open(..., "w"), the lines of one
\* run, or bytes of two runs
FileOf(kind, run) == [kind |-> kind, run |-> run]

\* start_search: the Start Search button is clicked while it is enabled and
\* the input file exists
StartSearch ==
    /\ btn_search = "normal"
    /\ \E t \in SearchThreads :
         /\ s_pc[t] = "unborn"
         /\ \A u \in SearchThreads : s_pc[u] = "unborn" => t <= u
         /\ s_pc' = [s_pc EXCEPT ![t] = "open"]
    /\ btn_search' = "disabled"
    /\ UNCHANGED <<btn_download, after_search, after_download, gfound, d_pc,
                   d_read, d_overlap>>
    /\ UNCHANGED <<resVars, acqVars, sanVars, drvVars, rtVars, recVars>>

\* run_search_thread reads the playlist: no songs (the button's re-enabling
\* is queued with root.after and the function returns), some songs, or the
\* open raises and the except clause reports the error
SearchOpen(t) ==
    /\ s_pc[t] = "open"
    /\ \E r \in {"empty", "songs", "raise"} :
         /\ s_pc' = [s_pc EXCEPT ![t] = CASE r = "empty" -> "early"
                                          [] r = "songs" -> "pool"
                                          [] r = "raise" -> "finally"]
         /\ after_search' = IF r = "empty" THEN after_search + 1 ELSE after_search
    /\ UNCHANGED <<btn_search, btn_download, after_download, gfound, d_pc,
                   d_read, d_overlap>>
    /\ UNCHANGED <<resVars, acqVars, sanVars, drvVars, rtVars, recVars>>

\* the with block of the executor ends: every future was collected
SearchPool(t) ==
    /\ s_pc[t] = "pool"
    /\ s_pc' = [s_pc EXCEPT ![t] = "open_found"]
    /\ UNCHANGED <<btn_search, btn_download, after_search, after_download,
                   gfound, d_pc, d_read, d_overlap>>
    /\ UNCHANGED <<resVars, acqVars, sanVars, drvVars, rtVars, recVars>>

\* open(output_found, "w") truncates the file
SearchOpenFound(t) ==
    /\ s_pc[t] = "open_found"
    /\ gfound' = FileOf("truncated", 0)
    /\ s_pc' = [s_pc EXCEPT ![t] = "write_found"]
    /\ UNCHANGED <<btn_search, btn_download, after_search, after_download,
                   d_pc, d_read, d_overlap>>
    /\ UNCHANGED <<resVars, acqVars, sanVars, drvVars, rtVars, recVars>>

\* f.write("\n".join(found_list)) and the close: the lines of this run, or
\* bytes of two runs if another thread wrote since this one opened the file
SearchWriteFound(t) ==
    /\ s_pc[t] = "write_found"
    /\ gfound' = IF gfound.kind = "truncated"
                 THEN FileOf("complete", t)
                 ELSE FileOf("mixed", 0)
    /\ s_pc' = [s_pc EXCEPT ![t] = "write_notfound"]
    /\ UNCHANGED <<btn_search, btn_download, after_search, after_download,
                   d_pc, d_read, d_overlap>>
    /\ UNCHANGED <<resVars, acqVars, sanVars, drvVars, rtVars, recVars>>

\* the not-found manifest is written and the completion message queued
SearchWriteNotFound(t) ==
    /\ s_pc[t] = "write_notfound"
    /\ s_pc' = [s_pc EXCEPT ![t] = "finally"]
    /\ UNCHANGED <<btn_search, btn_download, after_search, after_download,
                   gfound, d_pc, d_read, d_overlap>>
    /\ UNCHANGED <<resVars, acqVars, sanVars, drvVars, rtVars, recVars>>

\* the finally clause, reached from the early return, from the end of the
\* try block and from the except clause: the button's re-enabling is queued
\* with root.after and the thread ends
SearchFinally(t) ==
    /\ s_pc[t] \in {"early", "finally"}
    /\ after_search' = after_search + 1
    /\ s_pc' = [s_pc EXCEPT ![t] = "ended"]
    /\ UNCHANGED <<btn_search, btn_download, after_download, gfound, d_pc,
                   d_read, d_overlap>>
    /\ UNCHANGED <<resVars, acqVars, sanVars, drvVars, rtVars, recVars>>

\* the main loop runs a queued lambda: btn_search.config(state='normal')
RunEnableSearch ==
    /\ after_search > 0
    /\ after_search' = after_search - 1
    /\ btn_search' = "normal"
    /\ UNCHANGED <<btn_download, s_pc, after_download, gfound, d_pc, d_read,
                   d_overlap>>
    /\ UNCHANGED <<resVars, acqVars, sanVars, drvVars, rtVars, recVars>>

\* start_download: the Start Download button is clicked while it is enabled
\* and the input file exists
StartDownload ==
    /\ btn_download = "normal"
    /\ gfound.kind # "absent"
    /\ btn_download' = "disabled"
    /\ d_pc' = "open"
    /\ UNCHANGED <<btn_search, s_pc, after_search, after_download, gfound,
                   d_read, d_overlap>>
    /\ UNCHANGED <<resVars, acqVars, sanVars, drvVars, rtVars, recVars>>

\* run_download_thread opens the found manifest and reads its lines
DownloadOpen ==
    /\ d_pc = "open"
    /\ d_read' = gfound
    /\ d_overlap' = (ActiveSearches # {})
    /\ d_pc' = "loop"
    /\ UNCHANGED <<btn_search, btn_download, s_pc, after_search, after_download,
                   gfound>>
    /\ UNCHANGED <<resVars, acqVars, sanVars, drvVars, rtVars, recVars>>

\* the loop over the lines ends, normally or in the except clause, and the
\* finally clause queues the re-enabling of the button
DownloadFinally ==
    /\ d_pc = "loop"
    /\ after_download' = after_download + 1
    /\ d_pc' = "ended"
    /\ UNCHANGED <<btn_search, btn_download, s_pc, after_search, gfound, d_read,
                   d_overlap>>
    /\ UNCHANGED <<resVars, acqVars, sanVars, drvVars, rtVars, recVars>>

\* the main loop runs a queued lambda: btn_download.config(state='normal')
RunEnableDownload ==
    /\ after_download > 0
    /\ after_download' = after_download - 1
    /\ btn_download' = "normal"
    /\ UNCHANGED <<btn_search, s_pc, after_search, gfound, d_pc, d_read,
                   d_overlap>>
    /\ UNCHANGED <<resVars, acqVars, sanVars, drvVars, rtVars, recVars>>

\* the window has been opened; the found manifest of an earlier run may exist
InitGui ==
    /\ frontend = "gui"
    /\ ResolveIdle
    /\ AcquireIdle
    /\ SanitizeIdle
    /\ DriverIdle
    /\ RoundTripIdle
    /\ RecorderIdle
    /\ btn_search = "normal"
    /\ btn_download = "normal"
    /\ s_pc = [t \in SearchThreads |-> "unborn"]
    /\ after_search = 0
    /\ after_download = 0
    /\ gfound \in {FileOf("absent", 0), FileOf("stale", 0)}
    /\ d_pc = "idle"
    /\ d_read = FileOf("None", 0)
    /\ d_overlap = FALSE

NextGui ==
    \/ StartSearch
    \/ \E t \in SearchThreads : SearchOpen(t)
    \/ \E t \in SearchThreads : SearchPool(t)
    \/ \E t \in SearchThreads : SearchOpenFound(t)
    \/ \E t \in SearchThreads : SearchWriteFound(t)
    \/ \E t \in SearchThreads : SearchWriteNotFound(t)
    \/ \E t \in SearchThreads : SearchFinally(t)
    \/ RunEnableSearch
    \/ StartDownload
    \/ DownloadOpen
    \/ DownloadFinally
    \/ RunEnableDownload

GuiSpec == InitGui /\ [][NextGui]_vars

(* --------------------------- GUI: record tab --------------------------- *)

\* most recording_loop callbacks queued at a time that are explored
MaxPending == 3

\* 'Title - Artist' strings the player can report
Titles == {"s1", "s2", "s3"}

\* one run of recording_loop past its first test, with is_recording true;
\* queued is the number of callbacks that stay queued while it runs. The
\* player reports no song, a new song (recorded, next_song(), called again
\* in 2 s), the first song again after others (toggle_recording() stops the
\* recording), or another known song (called again in 1 s)
RecordingLoopBody(queued) ==
    \E current_song \in Titles \cup {None} :
      IF current_song = None
      THEN /\ rec_pending' = queued + 1
           /\ is_recording' = TRUE
           /\ UNCHANGED recorded_songs
      ELSE IF \A k \in 1..Len(recorded_songs) : recorded_songs[k] # current_song
      THEN /\ recorded_songs' = Append(recorded_songs, current_song)
           /\ rec_pending' = queued + 1
           /\ is_recording' = TRUE
      ELSE IF Len(recorded_songs) > 1 /\ current_song = recorded_songs[1]
      THEN /\ is_recording' = FALSE
           /\ rec_pending' = queued
           /\ UNCHANGED recorded_songs
      ELSE /\ rec_pending' = queued + 1
           /\ is_recording' = TRUE
           /\ UNCHANGED recorded_songs

\* toggle_recording: a click on the record button. Start (the requirements
\* are met) sets is_recording and calls recording_loop directly; Stop clears
\* is_recording and leaves the queued callbacks alone
ToggleRecording ==
    /\ IF ~is_recording
       THEN /\ rec_pending < MaxPending
            /\ RecordingLoopBody(rec_pending)
       ELSE /\ is_recording' = FALSE
            /\ UNCHANGED <<rec_pending, recorded_songs>>
    /\ UNCHANGED <<resVars, acqVars, sanVars, drvVars, rtVars, guiVars>>

\* a timer set with root.after fires and calls recording_loop
RecordingLoop ==
    /\ rec_pending > 0
    /\ IF ~is_recording
       THEN /\ rec_pending' = rec_pending - 1
            /\ UNCHANGED <<is_recording, recorded_songs>>
       ELSE RecordingLoopBody(rec_pending - 1)
    /\ UNCHANGED <<resVars, acqVars, sanVars, drvVars, rtVars, guiVars>>

\* the window has been opened
InitRecorder ==
    /\ frontend = "gui"
    /\ ResolveIdle
    /\ AcquireIdle
    /\ SanitizeIdle
    /\ DriverIdle
    /\ RoundTripIdle
    /\ GuiIdle
    /\ is_recording = FALSE
    /\ rec_pending = 0
    /\ recorded_songs = <<>>

NextRecorder ==
    \/ ToggleRecording
    \/ RecordingLoop

RecorderSpec == InitRecorder /\ [][NextRecorder]_vars

(* ------------------------- command-line driver ------------------------- *)

\* search_youtube_urls.py: MAX_WORKERS = 3
ScriptWorkers == 3

\* the characters of the names and URLs of the coordinator specification
Spelling(token) ==
    CASE token = "a" -> <<"a">>
      [] token = "b" -> <<"b">>
      [] token = "u1" -> <<"u", "1">>
      [] token = "u2" -> <<"u", "2">>
      [] token = "old" -> <<"o", "l", "d">>
      [] token = " | " -> <<" ", "|", " ">>

\* the characters of one element of found_list
LineText(entry) == Spelling(entry[1]) \o Spelling(entry[2]) \o Spelling(entry[3])

RECURSIVE JoinLines(_)
\* "\n".join(lines)
JoinLines(lines) ==
    IF lines = <<>>
    THEN <<>>
    ELSE IF Len(lines) = 1
    THEN lines[1]
    ELSE lines[1] \o <<"\n">> \o JoinLines(Tail(lines))

\* the text f.write("\n".join(found_list)) leaves in the found manifest
FileText(file) == JoinLines([k \in 1..Len(file) |-> LineText(file[k])])

RECURSIVE SplitLines(_)
\* the lines 'for line in f' yields, without their line ends
SplitLines(text) ==
    IF text = <<>>
    THEN <<>>
    ELSE LET ends == { k \in 1..Len(text) : text[k] = "\n" } IN
         IF ends = {}
         THEN <<text>>
         ELSE LET k == CHOOSE e \in ends : \A j \in ends : e <= j IN
              <<SubSeq(text, 1, k - 1)>> \o SplitLines(SubSeq(text, k + 1, Len(text)))

\* [line.strip() for line in f if line.strip()]
ReadLines(text) ==
    LET raw == SplitLines(text) IN
    SelectSeq([k \in 1..Len(raw) |-> Strip(raw[k])], LAMBDA line : line # <<>>)

\* 'all': record_spotify ends the process when the platform check fails and
\* returns otherwise
DriverRecord ==
    /\ drv_pc = "record"
    /\ \E ok \in BOOLEAN : drv_pc' = IF ok THEN "search" ELSE "exit_platform"
    /\ UNCHANGED <<drv_cmd, playlist_exists, dl_path, default_args, m2_pc, m2_i>>
    /\ UNCHANGED <<resVars, acqVars, sanVars, rtVars, guiVars, recVars>>

\* mutation: the playlist is opened without the existence test
DriverSearch_NoTest ==
    /\ drv_pc = "search"
    /\ drv_pc' = "searching"
    /\ pcMain' = "start"
    /\ UNCHANGED <<drv_cmd, playlist_exists, dl_path, default_args, m2_pc, m2_i>>
    /\ UNCHANGED <<frontend, max_workers, songs, fut, work_queue, num_threads,
                   found_list, not_found_list, processed, found_file,
                   notfound_file>>
    /\ UNCHANGED <<acqVars, sanVars, rtVars, guiVars, recVars>>

\* search_youtube (main.py) or main (search_youtube_urls.py) is entered: if
\* the playlist file does not exist the first calls sys.exit(1) and the
\* second returns; otherwise the coordinator starts
DriverSearch ==
    /\ drv_pc = "search"
    /\ IF playlist_exists
       THEN /\ drv_pc' = "searching"
            /\ pcMain' = "start"
       ELSE /\ drv_pc' = IF drv_cmd = "all" THEN "exit_playlist" ELSE "returned"
            /\ UNCHANGED pcMain
    /\ UNCHANGED <<drv_cmd, playlist_exists, dl_path, default_args, m2_pc, m2_i>>
    /\ UNCHANGED <<frontend, max_workers, songs, fut, work_queue, num_threads,
                   found_list, not_found_list, processed, found_file,
                   notfound_file>>
    /\ UNCHANGED <<acqVars, sanVars, rtVars, guiVars, recVars>>

\* 'all': search_youtube has returned and download_songs(args.found, ...)
\* is called; it reads back the found manifest
DriverDownload ==
    /\ drv_cmd = "all"
    /\ drv_pc = "searching"
    /\ pcMain = "done"
    /\ drv_pc' = "downloading"
    /\ dl_lines' = ReadLines(FileText(found_file))
    /\ dl_pc' = "start"
    /\ UNCHANGED <<dl_dir0, dl_dir, dl_i, success_count, in_flight, requests,
                   progress, outcomes, dl_run, prev_outcomes>>
    /\ UNCHANGED <<drv_cmd, playlist_exists, dl_path, default_args, m2_pc, m2_i>>
    /\ UNCHANGED <<resVars, sanVars, rtVars, guiVars, recVars>>

\* the last stage of the command has returned
DriverCompleted ==
    /\ \/ drv_cmd = "all" /\ drv_pc = "downloading" /\ dl_pc = "done"
       \/ drv_cmd = "search_script" /\ drv_pc = "searching" /\ pcMain = "done"
    /\ drv_pc' = "completed"
    /\ UNCHANGED <<drv_cmd, playlist_exists, dl_path, default_args, m2_pc, m2_i>>
    /\ UNCHANGED <<resVars, acqVars, sanVars, rtVars, guiVars, recVars>>

\* 'python main.py all' or 'python search_youtube_urls.py' is started; the
\* playlist file exists or not
InitDriver ==
    /\ drv_cmd \in {"all", "search_script"}
    /\ drv_pc = IF drv_cmd = "all" THEN "record" ELSE "search"
    /\ playlist_exists \in BOOLEAN
    /\ dl_path = "dir"
    /\ default_args = TRUE
    /\ m2_pc = "idle"
    /\ m2_i = 0
    /\ frontend = "cli"
    /\ max_workers \in (IF drv_cmd = "all" THEN 1..MaxWorkers ELSE {ScriptWorkers})
    /\ songs \in (IF playlist_exists THEN Playlists ELSE {<<>>})
    /\ pcMain = "idle"
    /\ fut = [i \in 1..Len(songs) |-> NewFuture(songs[i])]
    /\ work_queue = <<>>
    /\ num_threads = 0
    /\ found_list = <<>>
    /\ not_found_list = <<>>
    /\ processed = 0
    /\ found_file = StaleFound
    /\ notfound_file = StaleNotFound
    /\ AcquireIdle
    /\ SanitizeIdle
    /\ RoundTripIdle
    /\ GuiIdle
    /\ RecorderIdle

NextDriver ==
    \/ DriverRecord
    \/ DriverSearch
    \/ ReadPlaylist
    \/ Submit
    \/ WorkerTake
    \/ \E i \in Futures : Attempt(i, CoarseResponses)
    \/ \E i \in Futures : Cooldown(i)
    \/ \E i \in Futures : Collect(i)
    \/ LeavePool
    \/ WriteFound
    \/ WriteNotFound
    \/ DriverDownload
    \/ DlStart
    \/ TrackBegin
    \/ TrackEnd
    \/ DlFinish
    \/ DriverCompleted

DriverSpec == InitDriver /\ [][NextDriver]_vars

(* ----------------- download command and the second main ---------------- *)

\* what is at the path of the output folder: a directory, nothing (and
\* makedirs can create it), nothing (and makedirs raises OSError), or a
\* regular file
PathKinds == {"dir", "absent", "blocked", "file"}

\* 'if not os.path.exists(output_folder): os.makedirs(output_folder)' of
\* download_songs, where OSError ends the command, and of start_download,
\* where it is reported and the thread is not started
EnsureFolder ==
    /\ dl_pc = "mkdir"
    /\ CASE dl_path \in {"dir", "file"} -> dl_pc' = "start" /\ UNCHANGED dl_path
         [] dl_path = "absent" -> dl_pc' = "start" /\ dl_path' = "dir"
         [] dl_path = "blocked" -> dl_pc' = "aborted" /\ UNCHANGED dl_path
    /\ UNCHANGED <<dl_lines, dl_dir0, dl_dir, dl_i, success_count, in_flight,
                   requests, progress, outcomes, dl_run, prev_outcomes>>
    /\ UNCHANGED <<drv_cmd, drv_pc, playlist_exists, default_args, m2_pc, m2_i>>
    /\ UNCHANGED <<resVars, sanVars, rtVars, guiVars, recVars>>

\* parts = line.split("|"); parts[1].strip() of the second download_track
SecondUrlOf(line) ==
    LET rest == SubSeq(line, FirstSeparator(line) + 1, Len(line)) IN
    IF HasSeparator(rest)
    THEN Strip(SubSeq(rest, 1, FirstSeparator(rest) - 1))
    ELSE Strip(rest)

\* main.py run as a script: the first main() has returned from
\* download_songs, the rest of the file is executed and its last statement
\* calls the second main(), which reads found_songs.txt and downloads into
\* 'songs'; with other file names given to the first main() that file is
\* taken not to exist and the second main() returns
SecondMain ==
    /\ frontend = "cli"
    /\ dl_pc = "done"
    /\ m2_pc = "idle"
    /\ m2_pc' = IF default_args THEN "loop" ELSE "returned"
    /\ UNCHANGED <<drv_cmd, drv_pc, playlist_exists, dl_path, default_args, m2_i>>
    /\ UNCHANGED <<resVars, acqVars, sanVars, rtVars, guiVars, recVars>>

\* one iteration of the loop of the second main() up to the return of the
\* second download_track(line) or up to its ydl.download([url])
SecondTrackBegin ==
    /\ m2_pc = "loop"
    /\ m2_i < Len(dl_lines)
    /\ m2_i' = m2_i + 1
    /\ LET line == dl_lines[m2_i + 1] IN
         IF ~HasSeparator(line)
         THEN UNCHANGED <<m2_pc, in_flight, requests>>
         ELSE IF Mp3File(SafeName2(SongNameOf(line))) \in dl_dir
         THEN UNCHANGED <<m2_pc, in_flight, requests>>
         ELSE /\ in_flight' = <<[name |-> SafeName2(SongNameOf(line)),
                                 url |-> SecondUrlOf(line)]>>
              /\ requests' = Append(requests, SecondUrlOf(line))
              /\ m2_pc' = "downloading"
    /\ UNCHANGED <<dl_lines, dl_dir0, dl_dir, dl_pc, dl_i, success_count,
                   progress, outcomes, dl_run, prev_outcomes>>
    /\ UNCHANGED <<drv_cmd, drv_pc, playlist_exists, dl_path, default_args>>
    /\ UNCHANGED <<resVars, sanVars, rtVars, guiVars, recVars>>

\* ydl.download([url]) of the second download_track ends
SecondTrackEnd ==
    /\ m2_pc = "downloading"
    /\ \E ok \in DownloadResults :
         dl_dir' = IF ok THEN dl_dir \cup {Mp3File(in_flight[1].name)} ELSE dl_dir
    /\ in_flight' = <<>>
    /\ m2_pc' = "loop"
    /\ UNCHANGED <<dl_lines, dl_dir0, dl_pc, dl_i, success_count, requests,
                   progress, outcomes, dl_run, prev_outcomes>>
    /\ UNCHANGED <<drv_cmd, drv_pc, playlist_exists, dl_path, default_args, m2_i>>
    /\ UNCHANGED <<resVars, sanVars, rtVars, guiVars, recVars>>

\* 'All downloads complete!' and the process ends
SecondMainFinish ==
    /\ m2_pc = "loop"
    /\ m2_i = Len(dl_lines)
    /\ m2_pc' = "done"
    /\ UNCHANGED <<drv_cmd, drv_pc, playlist_exists, dl_path, default_args, m2_i>>
    /\ UNCHANGED <<resVars, acqVars, sanVars, rtVars, guiVars, recVars>>

\* 'python main.py download' or a click on Start Download, with a found
\* manifest that exists
InitScript ==
    /\ frontend \in {"cli", "gui"}
    /\ ResolveIdle
    /\ SanitizeIdle
    /\ RoundTripIdle
    /\ GuiIdle
    /\ RecorderIdle
    /\ drv_cmd = "download"
    /\ drv_pc = "downloading"
    /\ playlist_exists = TRUE
    /\ dl_path \in PathKinds
    /\ default_args \in (IF frontend = "cli" THEN BOOLEAN ELSE {TRUE})
    /\ m2_pc = "idle"
    /\ m2_i = 0
    /\ dl_lines \in Manifests
    /\ dl_dir0 \in (IF dl_path = "dir" THEN { {}, {Mp3File(<<"a">>)} } ELSE { {} })
    /\ dl_dir = dl_dir0
    /\ dl_pc = "mkdir"
    /\ dl_i = 0
    /\ success_count = 0
    /\ in_flight = <<>>
    /\ requests = <<>>
    /\ progress = <<>>
    /\ outcomes = <<>>
    /\ dl_run = 1
    /\ prev_outcomes = <<>>

NextScript ==
    \/ EnsureFolder
    \/ DlStart
    \/ TrackBegin
    \/ TrackEnd
    \/ DlFinish
    \/ SecondMain
    \/ SecondTrackBegin
    \/ SecondTrackEnd
    \/ SecondMainFinish

ScriptSpec == InitScript /\ [][NextScript]_vars

(* ------------------------- vocabulary of the claims --------------------- *)

\* the attempt raised an exception and this is its text
Raised(r) == r.kind \in {"error", "empty"}

RaisedMsg(r) == IF r.kind = "empty" THEN IndexErrorMsg ELSE r.msg

RateLimited(r) == Raised(r) /\ Contains(RaisedMsg(r), "429")

AccessRestricted(r) == Raised(r) /\ Contains(RaisedMsg(r), "Sign in")

GenericError(r) == Raised(r) /\ ~RateLimited(r) /\ ~AccessRestricted(r)

\* the provider call succeeded without a usable result
NoResults(r) == r.kind = "empty" \/ (r.kind = "video" /\ r.url = None)

Returned(t) == t.state \in {"finished", "yielded"}

Last(s) == s[Len(s)]

RateLimitedCount(log) == Cardinality({ k \in 1..Len(log) : RateLimited(log[k]) })

(* ------------------------------- C2 ----------------------------------- *)

C2_Bounded ==
    \A i \in Futures :
      LET t == fut[i] IN
        /\ Len(t.log) <= 3
        /\ (Returned(t) /\ t.log # <<>> /\ GenericError(Last(t.log)))
             => (Len(t.log) = 3 /\ ~t.result.found)
        /\ \A k \in 1..2 :
             (Len(t.log) >= k /\ GenericError(t.log[k]))
               => \/ Len(t.log) > k
                  \/ t.state = "running" /\ t.pc = "attempt" /\ t.attempt = k

C2_OneResult ==
    \A i \in Futures :
      Returned(fut[i]) => (Returned(fut'[i]) /\ fut'[i].result = fut[i].result)

\* C2: find_url issues at most 3 search queries for one name and then returns
\* exactly one result; a generic error on attempt 1 or 2 is followed by
\* another attempt, so a generic failure is returned only after 3 attempts.
C2_Theorem ==
    /\ []C2_Bounded
    /\ [][C2_OneResult]_vars
    /\ <>(\A i \in Futures : Returned(fut[i]))

C2_Witness ==
    \E i \in Futures :
      /\ Returned(fut[i])
      /\ Len(fut[i].log) = 3
      /\ \A k \in 1..3 : GenericError(fut[i].log[k])
      /\ ~fut[i].result.found

(* ------------------------------- C3 ----------------------------------- *)

\* C3: an attempt that fails with an error text carrying the 'Sign in' marker
\* makes find_url return a failure at once, on whichever attempt: no further
\* query and no cooldown sleep.
C3_Original ==
    \A i \in Futures :
      LET t == fut[i] IN
        (t.log # <<>> /\ AccessRestricted(Last(t.log)))
          => /\ Returned(t)
             /\ ~t.result.found
             /\ t.cooldowns = RateLimitedCount(SubSeq(t.log, 1, Len(t.log) - 1))

(* ------------------------------- C4 ----------------------------------- *)

\* C4: when the provider call succeeds with no results (an empty result list
\* or a result without a URL), find_url fails at once with 'No results found'
\* and makes no further attempt.
C4_Original ==
    \A i \in Futures :
      LET t == fut[i] IN
        \A k \in 1..Len(t.log) :
          NoResults(t.log[k])
            => /\ Len(t.log) = k
               /\ Returned(t)
               /\ t.result = FailedResult(t.song, <<"No results found">>)

(* ------------------------------- C5 ----------------------------------- *)

\* C5 as stated: after the second of two consecutive rate-limited attempts
\* find_url returns a failure without issuing another search attempt.
C5_Original ==
    \A i \in Futures :
      LET t == fut[i] IN
        \A k \in 1..2 :
          (Len(t.log) >= k + 1 /\ RateLimited(t.log[k]) /\ RateLimited(t.log[k + 1]))
            => /\ Len(t.log) = k + 1
               /\ Returned(t) => ~t.result.found

\* C5 (amended): two consecutive rate-limited attempts end the resolution
\* only when they are attempts 2 and 3; then find_url returns a failure with
\* no fourth attempt.  After rate-limited attempts 1 and 2 find_url does not
\* return before it has issued a third search attempt.
C5_Theorem ==
    \A i \in Futures :
      LET t == fut[i] IN
        /\ (Len(t.log) >= 3 /\ RateLimited(t.log[2]) /\ RateLimited(t.log[3]))
             => /\ Len(t.log) = 3
                /\ Returned(t) => t.result = FailedResult(t.song, RaisedMsg(t.log[3]))
        /\ (Len(t.log) >= 2 /\ RateLimited(t.log[1]) /\ RateLimited(t.log[2])
              /\ Returned(t))
             => Len(t.log) = 3

\* two rate-limited attempts, then a third attempt that finds the track
C5_Witness ==
    \E i \in Futures :
      /\ Returned(fut[i])
      /\ Len(fut[i].log) = 3
      /\ RateLimited(fut[i].log[1])
      /\ RateLimited(fut[i].log[2])
      /\ fut[i].result.found

(* ------------------------------- C6 ----------------------------------- *)

\* C6: an attempt that fails with '429' in the error text counts against the
\* 3-attempt budget and is followed by exactly one cooldown sleep before
\* anything else; the Resolver then retries if budget remains.  The number of
\* cooldown sleeps equals the number of rate-limited attempts, a rate-limited
\* final attempt cools down and fails, and there is never a fourth attempt.
C6_Theorem ==
    \A i \in Futures :
      LET t == fut[i]
          n == Len(t.log) IN
        /\ n <= 3
        /\ (n > 0 /\ RateLimited(Last(t.log)) /\ ~Returned(t))
             => t.pc \in {"cooldown", "attempt"}
        /\ t.pc = "cooldown"
             => /\ t.state = "running"
                /\ RateLimited(Last(t.log))
                /\ t.cooldowns = RateLimitedCount(t.log) - 1
        /\ t.pc # "cooldown" => t.cooldowns = RateLimitedCount(t.log)
        /\ \A k \in 1..2 :
             (n >= k /\ RateLimited(t.log[k]) /\ Returned(t)) => n > k
        /\ (n = 3 /\ RateLimited(t.log[3]) /\ Returned(t))
             => t.result = FailedResult(t.song, RaisedMsg(t.log[3]))

\* three rate-limited attempts, three cooldowns, then the failure
C6_Witness ==
    \E i \in Futures :
      /\ Returned(fut[i])
      /\ Len(fut[i].log) = 3
      /\ \A k \in 1..3 : RateLimited(fut[i].log[k])
      /\ fut[i].cooldowns = 3

(* ------------------------------- C7 ----------------------------------- *)

FoundUrl(r) == r.kind = "video" /\ r.url # None

\* C7: attempt 1 rate-limited and attempt 2 successful: find_url returns
\* found with the URL of attempt 2 after exactly one cooldown sleep and
\* exactly two search queries.
C7_Theorem ==
    \A i \in Futures :
      LET t == fut[i] IN
        (Len(t.log) >= 2 /\ RateLimited(t.log[1]) /\ FoundUrl(t.log[2]))
          => /\ Returned(t)
             /\ t.result = [song |-> t.song, found |-> TRUE,
                            url |-> t.log[2].url, error |-> NoError]
             /\ t.cooldowns = 1
             /\ Len(t.log) = 2

C7_Witness ==
    \E i \in Futures :
      /\ Len(fut[i].log) = 2
      /\ RateLimited(fut[i].log[1])
      /\ FoundUrl(fut[i].log[2])
      /\ fut[i].result.found

(* ------------------------------- C8 ----------------------------------- *)

\* C8: when all 3 attempts fail with generic errors, the failure returned by
\* find_url carries the error text of the third attempt, not an earlier one
\* and not 'Max retries exceeded'.
C8_Theorem ==
    \A i \in Futures :
      LET t == fut[i] IN
        (Len(t.log) = 3 /\ \A k \in 1..3 : GenericError(t.log[k]))
          => /\ Returned(t)
             /\ t.result = FailedResult(t.song, RaisedMsg(t.log[3]))
             /\ t.result.error # <<"Max retries exceeded">>

\* three generic errors whose last text differs from the first two
C8_Witness ==
    \E i \in Futures :
      LET t == fut[i] IN
        /\ Len(t.log) = 3
        /\ \A k \in 1..3 : GenericError(t.log[k])
        /\ RaisedMsg(t.log[3]) # RaisedMsg(t.log[1])
        /\ RaisedMsg(t.log[3]) # RaisedMsg(t.log[2])
        /\ Returned(t)

(* ------------------------------- C1 ----------------------------------- *)

Range(s) == { s[k] : k \in 1..Len(s) }

\* the multiset of the elements of a sequence
BagOfSeq(s) == [x \in Range(s) |-> Cardinality({ k \in 1..Len(s) : s[k] = x })]

\* the track name of a found line
TrackName(line) == line[1]

OutcomeNames ==
    [k \in 1..Len(found_list) |-> TrackName(found_list[k])] \o not_found_list

PoolLeft == pcMain \in {"write_found", "write_notfound", "done"}

\* C1: when the Resolution Coordinator finishes, every input line has
\* produced exactly one terminal outcome: the found list and the not-found
\* list together hold exactly n entries and the multiset of their track names
\* equals the multiset of the input lines.
C1_Theorem ==
    PoolLeft
      => /\ Len(found_list) + Len(not_found_list) = Len(songs)
         /\ BagOfSeq(OutcomeNames) = BagOfSeq(songs)
         /\ processed = Len(songs) \/ (frontend = "gui" /\ Len(songs) = 0)

\* a playlist with a duplicate line, one copy found and one not
C1_Witness ==
    /\ pcMain = "done"
    /\ \E j, k \in 1..Len(songs) : j # k /\ songs[j] = songs[k]
    /\ \E k \in 1..Len(found_list) :
         \E j \in 1..Len(not_found_list) :
           TrackName(found_list[k]) = not_found_list[j]

(* ------------------------------- C9 ----------------------------------- *)

\* C9: at every moment of a resolution run the number of find_url
\* invocations executing concurrently is at most the configured worker count.
C9_Theorem == Cardinality(Running) <= max_workers

\* the pool is full and a submitted name waits in the queue
C9_Witness ==
    /\ Cardinality(Running) = max_workers
    /\ work_queue # <<>>

(* ------------------------------- C10 ---------------------------------- *)

C10_NoActiveResolution ==
    \A i \in Futures : fut[i].state \in {"finished", "yielded"}

C10_Safety ==
    /\ PoolLeft => C10_NoActiveResolution
    /\ found_file # StaleFound
         => (C10_NoActiveResolution /\ found_file = found_list)
    /\ notfound_file # StaleNotFound
         => (C10_NoActiveResolution /\ notfound_file = not_found_list)

BothManifestsWritten ==
    /\ found_file = found_list
    /\ notfound_file = not_found_list

\* C10 as stated: no manifest is opened for writing while a find_url
\* invocation is queued or running, and the coordinator ends having written
\* both manifests.
C10_Original ==
    /\ C10_Safety
    /\ pcMain = "done" => BothManifestsWritten

\* C10 (amended): no manifest is opened for writing while a find_url
\* invocation is queued or running; and if every find_url invocation
\* eventually returns, the coordinator eventually finishes, having written
\* both manifests unless it is the GUI coordinator on a playlist without
\* non-blank lines, which finishes without writing either manifest.
C10_Theorem ==
    /\ []C10_Safety
    /\ <>(pcMain = "done")
    /\ [](pcMain = "done"
            => IF frontend = "gui" /\ Len(songs) = 0
               THEN found_file = StaleFound /\ notfound_file = StaleNotFound
               ELSE BothManifestsWritten)

\* both manifests written after a run that had more names than workers
C10_Witness ==
    /\ pcMain = "done"
    /\ BothManifestsWritten
    /\ Len(songs) > max_workers
    /\ found_list # <<>>
    /\ not_found_list # <<>>

(* ------------------------------- C11 ---------------------------------- *)

Occurrences(s, x) == Cardinality({ k \in 1..Len(s) : s[k] = x })

FoundFileNames == { TrackName(found_file[k]) : k \in 1..Len(found_file) }

NotFoundFileNames == Range(notfound_file)

RunWroteManifests == pcMain = "done" /\ BothManifestsWritten

\* C11 as stated: the names in the found manifest and the names in the
\* not-found manifest of one run are disjoint, for every playlist.
C11_Original ==
    RunWroteManifests => FoundFileNames \cap NotFoundFileNames = {}

\* C11 (amended): a track name is in both the found and the not-found
\* manifest of one run only if it occurs on at least two playlist lines
\* (duplicate lines are resolved independently); for a playlist without
\* duplicate lines the two sets of names are disjoint.
C11_Theorem ==
    RunWroteManifests
      => \A name \in FoundFileNames \cap NotFoundFileNames :
           Occurrences(songs, name) >= 2

\* one copy of a duplicate line found, the other not
C11_Witness ==
    /\ RunWroteManifests
    /\ FoundFileNames \cap NotFoundFileNames # {}

(* ------------------------------- C12 ---------------------------------- *)

\* C12: after any resolution run that ends normally, from the CLI or the GUI
\* and also over a playlist without non-blank lines, both manifests hold
\* exactly that run's entries and no line of an earlier run.
C12_Original ==
    pcMain = "done"
      => /\ found_file = found_list
         /\ notfound_file = not_found_list
         /\ Range(found_file) \cap Range(StaleFound) = {}
         /\ Range(notfound_file) \cap Range(StaleNotFound) = {}

(* ------------------------------- C13 ---------------------------------- *)

\* the futures of name that were handed to the executor
SubmittedFor(name) ==
    { i \in Futures : fut[i].song = name /\ fut[i].state # "unsubmitted" }

\* the futures of name whose find_url call issued a search
ResolvedFor(name) ==
    { i \in Futures : fut[i].song = name /\ fut[i].log # <<>> }

\* C13 as stated: each track name is submitted to the Resolver exactly once
\* per run, however often it occurs in the playlist.
C13_Original ==
    \A name \in Range(songs) : Cardinality(SubmittedFor(name)) <= 1

\* C13 (amended): each playlist line is submitted to the Resolver exactly
\* once per run, so a name that occurs on k lines is submitted k times.
C13_Theorem ==
    /\ \A j, k \in 1..Len(work_queue) : work_queue[j] = work_queue[k] => j = k
    /\ \A i \in Futures :
         fut[i].state = "pending" <=> \E k \in 1..Len(work_queue) : work_queue[k] = i
    /\ PoolLeft
         => \A name \in Range(songs) :
              /\ Cardinality(SubmittedFor(name)) = Occurrences(songs, name)
              /\ Cardinality(ResolvedFor(name)) = Occurrences(songs, name)

C13_Witness ==
    /\ PoolLeft
    /\ \E name \in Range(songs) :
         /\ Occurrences(songs, name) >= 2
         /\ Cardinality(ResolvedFor(name)) >= 2

(* ------------------------------- C14 ---------------------------------- *)

\* a step that changes a result collection is one iteration of the
\* coordinator's as_completed loop and moves no find_url invocation
C14_Owned ==
    <<found_list, not_found_list, processed>>' # <<found_list, not_found_list, processed>>
      => /\ pcMain = "collect"
         /\ \E i \in Futures :
              /\ fut[i].state = "finished"
              /\ fut' = [fut EXCEPT ![i].state = "yielded"]
         /\ processed' = processed + 1
         /\ Len(found_list') + Len(not_found_list')
              = Len(found_list) + Len(not_found_list) + 1

C14_NoLostUpdate ==
    /\ processed = Len(found_list) + Len(not_found_list)
    /\ processed = Cardinality({ i \in Futures : fut[i].state = "yielded" })

\* C14: the found list, the not-found list and the processed counter are
\* written only by the coordinating thread that consumes completed futures;
\* no running find_url invocation writes them, so no update is lost.
C14_Theorem ==
    /\ []C14_NoLostUpdate
    /\ [][C14_Owned]_vars

\* results already collected while another find_url invocation is running
C14_Witness ==
    /\ processed > 0
    /\ Running # {}

(* ------------------------ acquisition vocabulary ----------------------- *)

\* file name download_track derives for manifest line k
FileOfLine(k) == Mp3File(SafeName(SongNameOf(dl_lines[k])))

\* lines for which download_track has returned with one of the outcomes
LinesWith(kinds) == { k \in 1..Len(outcomes) : outcomes[k] \in kinds }

Succeeded == {"skipped", "downloaded"}

\* the acquisition run is over, normally or not
RunEnded == dl_pc \in {"done", "error"}

(* ------------------------------- C15 ---------------------------------- *)

\* a download_track call that finds its mp3 in the folder
C15_SkipStep ==
    (/\ dl_pc = "loop"
     /\ dl_i < Len(dl_lines)
     /\ DownloadTrackParams = CallArguments
     /\ HasSeparator(dl_lines[dl_i + 1])
     /\ FileOfLine(dl_i + 1) \in dl_dir
     /\ progress' # progress)
      => /\ success_count' = success_count + 1
         /\ dl_i' = dl_i + 1
         /\ requests' = requests
         /\ dl_dir' = dl_dir
         /\ in_flight' = <<>>

\* the run after one in which every entry was reported as success
C15_Rerun ==
    (dl_run = 2 /\ \A k \in 1..Len(prev_outcomes) : prev_outcomes[k] \in Succeeded)
      => /\ requests = <<>>
         /\ in_flight = <<>>
         /\ \A k \in 1..Len(outcomes) : outcomes[k] = "skipped"
         /\ success_count = Len(outcomes)
         /\ dl_pc = "done" => success_count = Len(dl_lines)

\* C15: if the derived name with .mp3 exists in the destination directory,
\* download_track returns success (counted) without a network request and
\* leaves the directory unchanged; so a second acquireAll over a manifest
\* whose entries were all acquired by the first takes the skip path for every
\* entry and issues no network request.
C15_Theorem ==
    /\ [][C15_SkipStep]_vars
    /\ []C15_Rerun

\* a finished second run over entries the first run downloaded
C15_Witness ==
    /\ dl_run = 2
    /\ dl_pc = "done"
    /\ Len(dl_lines) >= 2
    /\ \A k \in 1..Len(prev_outcomes) : prev_outcomes[k] \in Succeeded
    /\ \E k \in 1..Len(prev_outcomes) : prev_outcomes[k] = "downloaded"
    /\ success_count = Len(dl_lines)
    /\ requests = <<>>

(* ------------------------------- C16 ---------------------------------- *)

\* C16: the Acquirer's sanitization (character filter, strip, truncate to
\* 150) applied to an already sanitized name returns that same name, for
\* every track name.
C16_Original == san_pc = "twice" => san_twice = san_once

(* ------------------------------- C17 ---------------------------------- *)

FirstRunIntoEmptyDir == dl_pc = "done" /\ dl_run = 1 /\ dl_dir0 = {}

\* C17 as stated: after acquireAll into an initially empty directory the
\* number of audio files equals the reported successCount.
C17_Original ==
    FirstRunIntoEmptyDir => Cardinality(dl_dir) = success_count

\* C17 (amended): after acquireAll into an initially empty directory the
\* directory holds exactly one audio file per distinct sanitized name among
\* the entries reported as success; the number of files is at most
\* successCount and smaller when successful entries share a sanitized name,
\* because the later ones take the skip path and are counted as success.
C17_Theorem ==
    FirstRunIntoEmptyDir
      => /\ dl_dir = { FileOfLine(k) : k \in LinesWith(Succeeded) }
         /\ success_count = Cardinality(LinesWith(Succeeded))
         /\ Cardinality(dl_dir) <= success_count
         /\ Cardinality(dl_dir) = Cardinality(LinesWith({"downloaded"}))

\* two successful entries, one file
C17_Witness ==
    /\ FirstRunIntoEmptyDir
    /\ success_count = 2
    /\ Cardinality(dl_dir) = 1

(* ------------------------------- C18 ---------------------------------- *)

\* C18: a manifest line without '|' makes download_track return failure with
\* no network request and no exception; in acquireAll (download_songs) the
\* line, wherever it stands, counts in total but not in successCount, and
\* every entry after it is still processed.
C18_Theorem ==
    frontend = "cli"
      => /\ dl_pc # "error"
         /\ \A k \in 1..Len(outcomes) :
              outcomes[k] = "malformed" <=> ~HasSeparator(dl_lines[k])
         /\ success_count = Cardinality(LinesWith(Succeeded))
         /\ Len(requests)
              = Cardinality(LinesWith({"downloaded", "failed"})) + Len(in_flight)
         /\ in_flight # <<>> => HasSeparator(dl_lines[dl_i + 1])
         /\ dl_pc = "done" => Len(outcomes) = Len(dl_lines)

\* a malformed line followed by a line that was downloaded
C18_Witness ==
    /\ frontend = "cli"
    /\ dl_pc = "done"
    /\ \E k \in 1..(Len(outcomes) - 1) :
         /\ outcomes[k] = "malformed"
         /\ outcomes[k + 1] = "downloaded"

(* ------------------------------- C19 ---------------------------------- *)

\* C19: in both front ends every manifest entry is passed to the Acquirer
\* whatever happened to earlier entries, and the run ends by reporting
\* 'successCount/total', not by an error.
C19_Original ==
    RunEnded
      => /\ dl_pc = "done"
         /\ Len(outcomes) = Len(dl_lines)

(* ------------------------------- C20 ---------------------------------- *)

\* C20: the Acquisition Coordinator processes the entries one after the
\* other in input order: at most one acquisition is in flight, the Acquirer
\* of line i+1 starts only after that of line i returned, and the progress
\* indices are emitted as 1, 2, ..., total.
C20_Original ==
    /\ Len(in_flight) <= 1
    /\ \A k \in 1..Len(progress) : progress[k] = k
    /\ in_flight # <<>> => (Len(outcomes) = dl_i /\ Len(progress) = dl_i + 1)
    /\ RunEnded => progress = [k \in 1..Len(dl_lines) |-> k]

(* ------------------------------- C24 ---------------------------------- *)

\* number of whitespace characters s begins with
LeadingSpaces(s) ==
    Cardinality({ k \in 1..Len(s) : \A j \in 1..k : s[j] \in Whitespace })

\* number of whitespace characters s ends with
TrailingSpaces(s) ==
    Cardinality({ k \in 1..Len(s) : \A j \in k..Len(s) : s[j] \in Whitespace })

\* s without the whitespace at its two ends
Core(s) ==
    IF LeadingSpaces(s) = Len(s)
    THEN <<>>
    ELSE SubSeq(s, LeadingSpaces(s) + 1, Len(s) - TrailingSpaces(s))

\* C24: the file name derived from a track name holds only letters, digits
\* and the characters space - _ . ( ), in their original order; it is the
\* name with the other characters removed and the whitespace at both ends
\* taken off, cut to its first 150 characters, and nothing else is changed.
C24_Theorem ==
    san_pc \in {"once", "twice"}
      => LET kept == SelectSeq(san_name, LAMBDA c : c \in Letters \cup Digits \cup Whitelist)
             core == Core(kept)
         IN /\ \A k \in 1..Len(san_once) :
                 san_once[k] \in Letters \cup Digits \cup Whitelist
            /\ core # <<>> => (core[1] # " " /\ core[Len(core)] # " ")
            /\ Len(san_once) <= NameLimit
            /\ Len(san_once) = Min(Len(core), NameLimit)
            /\ \A k \in 1..Len(san_once) : san_once[k] = core[k]

\* a name longer than the limit that holds a removed character
C24_Witness ==
    /\ san_pc = "once"
    /\ Len(san_name) > NameLimit
    /\ \E k \in 1..Len(san_name) : ~Kept(san_name[k])
    /\ Len(san_once) = NameLimit

(* ------------------------------- C26 ---------------------------------- *)

\* C26: for every track name the two definitions of download_track in
\* main.py derive the same file name.
C26_Original ==
    san_pc \in {"once", "twice"} => san_other = san_once

(* ------------------------------- C27 ---------------------------------- *)

\* C27: a name and URL produced by the Resolver, written as the manifest line
\* '<name> | <url>' and parsed by download_track, come back as the same name
\* and the same URL.
C27_Original ==
    rt_pc = "parsed" => (rt_parsed.name = rt_name /\ rt_parsed.url = rt_url)

(* ------------------------------- C28 ---------------------------------- *)

\* C28: in the GUI, whenever run_download_thread opens the found manifest no
\* run_search_thread is active, so what it reads is the complete result of
\* one finished resolution run, never a truncated file or a mix of two runs.
C28_Original ==
    d_read.kind # "None"
      => /\ ~d_overlap
         /\ d_read.kind \in {"stale", "complete"}

(* ------------------------------- C29 ---------------------------------- *)

\* C29: in the GUI at most one resolution thread is active at any time: the
\* search button is disabled from the start of a search until its thread
\* has ended, it is enabled again after every way the thread can end, and
\* two searches never write the manifests concurrently.
C29_Original ==
    /\ Cardinality(ActiveSearches) <= 1
    /\ ActiveSearches # {} => btn_search = "disabled"
    /\ (ActiveSearches = {} /\ after_search = 0) => btn_search = "normal"
    /\ Cardinality(Writers) <= 1
    /\ gfound.kind # "mixed"

(* ------------------------------- C30 ---------------------------------- *)

\* while recording at most one recording_loop callback is queued, and the
\* recorded list holds no song twice
C30_State ==
    /\ is_recording => rec_pending <= 1
    /\ \A j, k \in 1..Len(recorded_songs) :
         recorded_songs[j] = recorded_songs[k] => j = k

\* a song is recorded only by a step that leaves the recorder recording
C30_RecordsOnlyWhileRecording ==
    recorded_songs' # recorded_songs => is_recording'

\* C30: in the GUI recorder, for every sequence of Start/Stop clicks and
\* timer firings, at most one recording_loop callback is pending while
\* recording, no callback records a song between Stop and the next Start,
\* and the recorded list never holds the same song twice.
C30_Original ==
    /\ []C30_State
    /\ [][C30_RecordsOnlyWhileRecording]_vars

(* ------------------------------- C21 ---------------------------------- *)

\* every resolution of the run has ended and its result was collected
AllResolved == \A i \in Futures : fut[i].state = "yielded"

\* C21: in the 'all' command no Acquirer invocation starts before both
\* manifests are written, the manifests are written only after every
\* resolution has terminated, and the lines the Acquisition Coordinator
\* reads from the found manifest are the found entries the Resolution
\* Coordinator accumulated, in the same order.
C21_Theorem ==
    drv_cmd = "all"
      => /\ dl_pc # "idle"
              => /\ pcMain = "done"
                 /\ found_file = found_list
                 /\ notfound_file = not_found_list
                 /\ dl_lines = [k \in 1..Len(found_list) |-> LineText(found_list[k])]
         /\ (found_file # StaleFound \/ notfound_file # StaleNotFound)
              => /\ pcMain \in {"write_notfound", "done"}
                 /\ AllResolved
         /\ pcMain \in {"write_found", "write_notfound", "done"} => AllResolved

\* a finished 'all' run with two found entries and one that was not found
C21_Witness ==
    /\ drv_cmd = "all"
    /\ drv_pc = "completed"
    /\ Len(dl_lines) = 2
    /\ Len(not_found_list) = 1
    /\ \E k \in 1..Len(outcomes) : outcomes[k] = "downloaded"

(* ------------------------------- C23 ---------------------------------- *)

\* C23: if the playlist file does not exist the run is aborted: no Resolver
\* is invoked, neither manifest is created or modified, and in the 'all'
\* command no acquisition stage is started.
C23_Theorem ==
    ~playlist_exists
      => /\ pcMain = "idle"
         /\ \A i \in Futures : fut[i].state = "unsubmitted"
         /\ num_threads = 0
         /\ found_file = StaleFound
         /\ notfound_file = StaleNotFound
         /\ dl_pc = "idle"
         /\ drv_pc \notin {"searching", "downloading", "completed"}

\* the 'all' command ended at the missing playlist
C23_Witness ==
    /\ ~playlist_exists
    /\ drv_cmd = "all"
    /\ drv_pc = "exit_playlist"

(* ------------------------------- C22 ---------------------------------- *)

\* C22: the destination directory is created, if absent, before the first
\* Acquirer invocation of a batch; if it cannot be created the batch is
\* aborted with no Acquirer invocation and no count reported.
C22_Original ==
    /\ (progress # <<>> \/ m2_i > 0) => dl_path = "dir"
    /\ dl_path \in {"blocked", "file"}
         => /\ progress = <<>>
            /\ requests = <<>>
            /\ dl_pc # "done"

(* ------------------------------- C25 ---------------------------------- *)

\* number of times manifest line k was passed to an Acquirer: by the loop of
\* download_songs and by the loop of the second main()
Passes(k) ==
    (IF k <= Len(progress) THEN 1 ELSE 0) + (IF k <= m2_i THEN 1 ELSE 0)

\* C25: within one run of main.py as a script, through to process exit,
\* each manifest line is passed to an Acquirer at most once; a failed entry
\* is not attempted again.
C25_Original ==
    frontend = "cli" => \A k \in 1..Len(dl_lines) : Passes(k) <= 1

====
